---- MODULE Spec2Model ----
(***************************************************************************)
(* A model of the height-balanced binary search tree of src/src/lib.rs.    *)
(* A tree value is a record: Empty, or a Node holding left, value, right.  *)
(* The tree operations are operators that compute what the Rust code       *)
(* computes; the public mutators insert and remove are the actions.        *)
(***************************************************************************)
EXTENDS Integers, Sequences, FiniteSets, TLC

\* ---------------------------------------------------------------- bounds
\* values offered to insert/remove in Spec: 1..MaxVal
MaxVal == 8
\* values offered to insert in SpecIns (two trees side by side): 1..MaxInsVal
MaxInsVal == 5
\* SpecRot starts from every ordered tree over 1..MaxRotVal of depth <= MaxRotDepth
MaxRotVal == 5
MaxRotDepth == 3
\* SpecRot applies at most MaxRotations rotations to its starting tree
MaxRotations == 2

Values == 1..MaxVal
InsValues == 1..MaxInsVal

\* ------------------------------------------------------- the tree type
Empty == [tag |-> "Empty"]

Node(l, v, r) == [tag |-> "Node", left |-> l, value |-> v, right |-> r]

is_empty(t) == t.tag = "Empty"

Max(a, b) == IF a >= b THEN a ELSE b

RECURSIVE count_nodes(_)
count_nodes(t) ==
    IF is_empty(t) THEN 0
    ELSE LET left_count == count_nodes(t.left)
             right_count == count_nodes(t.right)
         IN  1 + left_count + right_count

RECURSIVE depth(_)
depth(t) ==
    IF is_empty(t) THEN 0
    ELSE LET left_depth == depth(t.left)
             right_depth == depth(t.right)
         IN  1 + Max(left_depth, right_depth)

\* Option<&Self>: <<>> is None, <<n>> is Some(n)
RECURSIVE find(_, _)
find(t, val) ==
    IF is_empty(t) THEN <<>>
    ELSE IF t.value = val THEN <<t>>
    ELSE IF val < t.value THEN find(t.left, val)
    ELSE find(t.right, val)

contains(t, val) == find(t, val) # <<>>

balance_factor(t) ==
    IF is_empty(t) THEN 0
    ELSE LET left_depth == depth(t.left)
             right_depth == depth(t.right)
         IN  left_depth - right_depth

\* ------------------------------------------------------------ rotations
\* rotate_left that hands the wrong subtree of the pivot to the old root
rotate_left_swapped(t) ==
    IF is_empty(t) THEN t
    ELSE IF ~is_empty(t.right)
         THEN LET new_left == Node(t.left, t.value, t.right.right)
              IN  Node(new_left, t.right.value, t.right.left)
         ELSE t

rotate_left(t) ==
    IF is_empty(t) THEN t
    ELSE IF ~is_empty(t.right)
         THEN LET new_left == Node(t.left, t.value, t.right.left)
              IN  Node(new_left, t.right.value, t.right.right)
         ELSE t

\* rotate_right that never rotates
rotate_right_noop(t) == t

rotate_right(t) ==
    IF is_empty(t) THEN t
    ELSE IF ~is_empty(t.left)
         THEN LET new_right == Node(t.left.right, t.value, t.right)
              IN  Node(t.left.left, t.left.value, new_right)
         ELSE t

rotate_left_right(t) ==
    IF is_empty(t) THEN t
    ELSE IF ~is_empty(t.left)
         THEN rotate_right(Node(rotate_left(t.left), t.value, t.right))
         ELSE t

rotate_right_left(t) ==
    IF is_empty(t) THEN t
    ELSE IF ~is_empty(t.right)
         THEN rotate_left(Node(t.left, t.value, rotate_right(t.right)))
         ELSE t

\* -------------------------------------------------------------- equality
RECURSIVE eq(_, _)
eq(a, b) ==
    IF is_empty(a) /\ is_empty(b) THEN TRUE
    ELSE IF ~is_empty(a) /\ ~is_empty(b)
         THEN a.value = b.value /\ eq(a.left, b.left) /\ eq(a.right, b.right)
         ELSE FALSE

\* ------------------------------------------------------------- rebalance
\* The result of a call that mutates a tree in place:
\*   tree  the tree the call leaves in *self
\*   ok    TRUE iff the call returns (every rebalance loop it runs breaks)
\*   rot   the largest number of passes that rotate which one rebalance
\*         loop of the call makes at one node
Res(t, ok, rot) == [tree |-> t, ok |-> ok, rot |-> rot]

\* the pass of rebalance without the double rotations
rebalance_pass_single(t) ==
    LET bf == balance_factor(t)
    IN  IF bf > 1 THEN rotate_right(t)
        ELSE IF bf < -1 THEN rotate_left(t)
        ELSE t

\* one pass of the body of the loop of rebalance on a Node whose balance
\* factor is outside [-1, 1]
rebalance_pass(t) ==
    LET bf == balance_factor(t)
    IN  IF bf > 1
        THEN IF ~is_empty(t.left)
             THEN IF balance_factor(t.left) >= 0
                  THEN rotate_right(t)
                  ELSE rotate_left_right(t)
             ELSE t
        ELSE IF bf < -1
        THEN IF ~is_empty(t.right)
             THEN IF balance_factor(t.right) <= 0
                  THEN rotate_left(t)
                  ELSE rotate_right_left(t)
             ELSE t
        ELSE t

\* the loop of rebalance; seen holds the trees the loop has already been
\* entered with: the loop is deterministic in *self, so meeting one of them
\* again means the loop never breaks
RECURSIVE rebalance_loop(_, _, _)
rebalance_loop(t, seen, n) ==
    LET bf == balance_factor(t)
    IN  IF is_empty(t) THEN Res(t, TRUE, n)
        ELSE IF bf <= 1 /\ bf >= -1 THEN Res(t, TRUE, n)
        ELSE LET t2 == rebalance_pass(t)
             IN  IF t2 = t \/ \E i \in DOMAIN seen : seen[i] = t2
                 THEN Res(t2, FALSE, n + 1)
                 ELSE rebalance_loop(t2, Append(seen, t), n + 1)

\* rebalance that never rotates
rebalance_none(t) == Res(t, TRUE, 0)

\* rebalance that makes one pass, and rotates as soon as a balance factor
\* is not 0
rebalance_eager(t) ==
    LET bf == balance_factor(t)
    IN  IF is_empty(t) \/ bf = 0 THEN Res(t, TRUE, 0)
        ELSE IF bf > 0
        THEN IF balance_factor(t.left) >= 0
             THEN Res(rotate_right(t), TRUE, 1)
             ELSE Res(rotate_left_right(t), TRUE, 1)
        ELSE IF balance_factor(t.right) <= 0
             THEN Res(rotate_left(t), TRUE, 1)
             ELSE Res(rotate_right_left(t), TRUE, 1)

rebalance(t) == rebalance_loop(t, <<>>, 0)

\* a rebalance of t that follows a call with result r on a part of t
Then(r, t) ==
    IF ~r.ok THEN r
    ELSE LET b == rebalance(t)
         IN  Res(b.tree, b.ok, Max(r.rot, b.rot))

\* ---------------------------------------------------------------- insert
\* insert without the test for an equal value: a duplicate goes right
RECURSIVE insert_dup(_, _)
insert_dup(t, val) ==
    IF is_empty(t) THEN rebalance(Node(Empty, val, Empty))
    ELSE IF val < t.value
         THEN LET r == insert_dup(t.left, val)
              IN  Then(r, Node(r.tree, t.value, t.right))
         ELSE LET r == insert_dup(t.right, val)
              IN  Then(r, Node(t.left, t.value, r.tree))

RECURSIVE insert(_, _)
insert(t, val) ==
    IF is_empty(t) THEN rebalance(Node(Empty, val, Empty))
    ELSE IF t.value = val THEN Res(t, TRUE, 0)
    ELSE IF val < t.value
         THEN LET r == insert(t.left, val)
              IN  Then(r, Node(r.tree, t.value, t.right))
         ELSE LET r == insert(t.right, val)
              IN  Then(r, Node(t.left, t.value, r.tree))

\* ---------------------------------------------------------------- remove
\* take_max also returns val: <<>> for None, <<v>> for Some(v)
\* take_max that leaves Empty, not the left subtree, where the maximum was
RECURSIVE take_max_drop(_)
take_max_drop(t) ==
    IF is_empty(t) THEN [tree |-> t, ok |-> TRUE, rot |-> 0, val |-> <<>>]
    ELSE IF ~is_empty(t.right)
         THEN LET m == take_max_drop(t.right)
                  r == Then(Res(m.tree, m.ok, m.rot), Node(t.left, t.value, m.tree))
              IN  [tree |-> r.tree, ok |-> r.ok, rot |-> r.rot, val |-> m.val]
         ELSE [tree |-> Empty, ok |-> TRUE, rot |-> 0, val |-> <<t.value>>]

RECURSIVE take_max(_)
take_max(t) ==
    IF is_empty(t) THEN [tree |-> t, ok |-> TRUE, rot |-> 0, val |-> <<>>]
    ELSE IF ~is_empty(t.right)
         THEN LET m == take_max(t.right)
                  r == Then(Res(m.tree, m.ok, m.rot), Node(t.left, t.value, m.tree))
              IN  [tree |-> r.tree, ok |-> r.ok, rot |-> r.rot, val |-> m.val]
         ELSE [tree |-> t.left, ok |-> TRUE, rot |-> 0, val |-> <<t.value>>]

RECURSIVE remove(_, _)
remove(t, val) ==
    IF is_empty(t) THEN Res(t, TRUE, 0)
    ELSE IF val < t.value
         THEN LET r == remove(t.left, val)
              IN  Then(r, Node(r.tree, t.value, t.right))
    ELSE IF val > t.value
         THEN LET r == remove(t.right, val)
              IN  Then(r, Node(t.left, t.value, r.tree))
    ELSE IF is_empty(t.left) THEN rebalance(t.right)
    ELSE IF is_empty(t.right) THEN rebalance(t.left)
    ELSE LET m == take_max(t.left)
             v == IF m.val # <<>> THEN m.val[1] ELSE t.value
         IN  Then(Res(m.tree, m.ok, m.rot), Node(m.tree, v, t.right))

\* ------------------------------------------------------------ the state
VARIABLES
    tree,      \* the tree the caller owns
    prev,      \* the tree as it was before the last call (SpecRot: before
               \* the rotations of hist)
    op,        \* the last call: "new", "insert", "remove", or a rotation
    arg,       \* the value passed to the last call (0: none)
    returned,  \* FALSE iff the last call never returns
    rot,       \* Res.rot of the last call
    model,     \* the set the calls so far describe: insert adds, remove deletes
    other,     \* SpecIns: a second tree, built by insert alone
    hist       \* SpecRot: the rotations applied to prev so far, in order

vars == <<tree, prev, op, arg, returned, rot, model, other, hist>>

\* BST::new()
Init ==
    /\ tree = Empty
    /\ prev = Empty
    /\ op = "new"
    /\ arg = 0
    /\ returned = TRUE
    /\ rot = 0
    /\ model = {}
    /\ other = Empty
    /\ hist = <<>>

\* a call that does not return leaves no state to observe: the caller is
\* stuck in it, and the tree stays as it was when the call was made
Call(name, v, r) ==
    /\ returned
    /\ prev' = tree
    /\ op' = name
    /\ arg' = v
    /\ returned' = r.ok
    /\ rot' = r.rot
    /\ tree' = IF r.ok THEN r.tree ELSE tree

Insert(v) ==
    /\ Call("insert", v, insert(tree, v))
    /\ model' = model \cup {v}
    /\ UNCHANGED <<other, hist>>

Remove(v) ==
    /\ Call("remove", v, remove(tree, v))
    /\ model' = model \ {v}
    /\ UNCHANGED <<other, hist>>

Next ==
    \/ \E v \in Values : Insert(v)
    \/ \E v \in Values : Remove(v)

Spec == Init /\ [][Next]_vars

\* ------------------------------------------- what the claims speak about
\* every node of t, not only its root, has a balance factor in [-1, 1]
RECURSIVE Balanced(_)
Balanced(t) ==
    IF is_empty(t) THEN TRUE
    ELSE /\ balance_factor(t) <= 1
         /\ balance_factor(t) >= -1
         /\ Balanced(t.left)
         /\ Balanced(t.right)

\* the values held by the nodes of t, left to right
RECURSIVE InOrder(_)
InOrder(t) ==
    IF is_empty(t) THEN <<>>
    ELSE InOrder(t.left) \o <<t.value>> \o InOrder(t.right)

ValuesOf(t) == {InOrder(t)[i] : i \in DOMAIN InOrder(t)}

\* at every node of t, the left subtree holds smaller values only and the
\* right subtree larger values only
RECURSIVE Ordered(_)
Ordered(t) ==
    IF is_empty(t) THEN TRUE
    ELSE /\ \A x \in ValuesOf(t.left) : x < t.value
         /\ \A x \in ValuesOf(t.right) : x > t.value
         /\ Ordered(t.left)
         /\ Ordered(t.right)

\* the node that remove(val) finds in t has two non-Empty children
TwoChildren(t, val) ==
    /\ contains(t, val)
    /\ ~is_empty(find(t, val)[1].left)
    /\ ~is_empty(find(t, val)[1].right)

\* C1: a tree reached from the empty tree by insert and remove calls has a
\* balance factor in [-1, 1] at every one of its nodes.
C1_Balance == Balanced(tree)

\* a remove of a node with two children whose take_max rotated has run
C1_Witness ==
    /\ op = "remove"
    /\ returned
    /\ TwoChildren(prev, arg)
    /\ take_max(find(prev, arg)[1].left).rot >= 1
    /\ depth(tree) >= 3

\* C2: after every insert and remove the tree is strictly ordered at every
\* node, so that no two nodes hold the same value.
C2_Order ==
    /\ Ordered(tree)
    /\ Cardinality(ValuesOf(tree)) = count_nodes(tree)

\* a remove has promoted a predecessor and a rebalance has rotated
C2_Witness ==
    /\ op = "remove"
    /\ returned
    /\ TwoChildren(prev, arg)
    /\ rot >= 1
    /\ count_nodes(tree) >= 5

\* C3: remove(v) on a tree that contains v leaves a tree that does not
\* contain v and has exactly one node less.
C3_RemovePresent ==
    (op = "remove" /\ returned /\ contains(prev, arg)) =>
        /\ ~contains(tree, arg)
        /\ count_nodes(tree) = count_nodes(prev) - 1

\* a remove has found its value at a node with two children, in a tree of
\* depth 3 or more, and a rebalance has rotated
C3_Witness ==
    /\ op = "remove"
    /\ returned
    /\ TwoChildren(prev, arg)
    /\ depth(prev) >= 3
    /\ rot >= 1

\* C5: remove(v) on a tree that does not contain v leaves a tree equal to
\* the one it was called on.
C5_RemoveAbsent ==
    (op = "remove" /\ returned /\ ~contains(prev, arg)) => eq(tree, prev)

\* a remove of an absent value has descended a tree with a node whose
\* balance factor is not 0
C5_Witness ==
    /\ op = "remove"
    /\ returned
    /\ ~contains(prev, arg)
    /\ depth(prev) >= 3
    /\ balance_factor(prev) # 0

\* C7: every insert and remove call returns: no rebalance loop, those run
\* by take_max included, is entered twice with the same tree.
C7_Terminates == returned

\* a remove whose take_max ran a rebalance loop that rotated has returned
C7_Witness ==
    /\ op = "remove"
    /\ returned
    /\ TwoChildren(prev, arg)
    /\ take_max(find(prev, arg)[1].left).rot >= 1

\* C9: the tree holds exactly the values of the set that the same calls
\* build (insert adds, remove deletes), and has as many nodes as the set
\* has members.
C9_SetRefinement ==
    /\ \A w \in 0..(MaxVal + 1) : contains(tree, w) <=> w \in model
    /\ count_nodes(tree) = Cardinality(model)

\* a remove that promoted a predecessor and rotated left a set of 5 or more
C9_Witness ==
    /\ op = "remove"
    /\ returned
    /\ TwoChildren(prev, arg)
    /\ rot >= 1
    /\ Cardinality(model) >= 5
    /\ model # ValuesOf(prev)

\* ---------------------------------------- two trees built by insert alone
InsertOther(v) ==
    /\ returned
    /\ LET r == insert(other, v)
       IN  /\ returned' = r.ok
           /\ other' = IF r.ok THEN r.tree ELSE other
    /\ UNCHANGED <<tree, prev, op, arg, rot, model, hist>>

NextIns ==
    \/ \E v \in InsValues : Insert(v)
    \/ \E v \in InsValues : InsertOther(v)

SpecIns == Init /\ [][NextIns]_vars

\* ------------------------------------------- the rotations, on any tree
\* every ordered tree of depth <= d whose values are in lo..hi
RECURSIVE OrderedTrees(_, _, _)
OrderedTrees(lo, hi, d) ==
    IF d = 0 THEN {Empty}
    ELSE {Empty} \cup
         UNION {{Node(l, v, r) : l \in OrderedTrees(lo, v - 1, d - 1),
                                 r \in OrderedTrees(v + 1, hi, d - 1)}
                : v \in lo..hi}

InitRot ==
    /\ tree \in OrderedTrees(1, MaxRotVal, MaxRotDepth)
    /\ prev = tree
    /\ op = "new"
    /\ arg = 0
    /\ returned = TRUE
    /\ rot = 0
    /\ model = {}
    /\ other = Empty
    /\ hist = <<>>

Rotate(name, t) ==
    /\ Len(hist) < MaxRotations
    /\ tree' = t
    /\ op' = name
    /\ hist' = Append(hist, name)
    /\ UNCHANGED <<prev, arg, returned, rot, model, other>>

RotateLeft == Rotate("rotate_left", rotate_left(tree))

RotateRight == Rotate("rotate_right", rotate_right(tree))

RotateLeftRight == Rotate("rotate_left_right", rotate_left_right(tree))

RotateRightLeft == Rotate("rotate_right_left", rotate_right_left(tree))

NextRot ==
    \/ RotateLeft
    \/ RotateRight
    \/ RotateLeftRight
    \/ RotateRightLeft

SpecRot == InitRot /\ [][NextRot]_vars

\* C4: inserting N distinct values into the empty tree, in any order, gives
\* a tree of N nodes; inserting a value the tree holds leaves the number of
\* nodes as it was.
C4_Size ==
    /\ count_nodes(tree) = Cardinality(model)
    /\ (op = "insert" /\ contains(prev, arg)) =>
           count_nodes(tree) = count_nodes(prev)

\* a duplicate has been inserted into a tree of all the values
C4_Witness ==
    /\ op = "insert"
    /\ contains(prev, arg)
    /\ count_nodes(tree) = MaxInsVal
    /\ model = InsValues

\* C6: insert(v) twice in a row leaves the tree that insert(v) once leaves;
\* inserting a value the tree holds leaves the tree as it was.
C6_InsertIdempotent ==
    (op = "insert" /\ returned) =>
        /\ insert(tree, arg).ok
        /\ eq(insert(tree, arg).tree, tree)
        /\ contains(prev, arg) => eq(tree, prev)

\* a value has been inserted with a rotation into a tree of depth 3, and
\* a duplicate has been inserted below the root of a tree that is not
\* perfectly balanced
C6_Witness ==
    /\ op = "insert"
    /\ returned
    /\ contains(prev, arg)
    /\ prev.value # arg
    /\ depth(prev) >= 3
    /\ balance_factor(prev) # 0

\* C8 as stated: two trees built by insert alone that hold the same set of
\* values compare equal.
C8_SameSetSameShape ==
    ValuesOf(tree) = ValuesOf(other) => eq(tree, other)

\* C8 as amended: two trees built by insert alone that hold the same set of
\* values are both balanced and hold the same in-order sequence; they
\* compare equal when the set has 0, 1 or 3 values (for other sizes the
\* shape depends on the order of the inserts).
C8_SameSetSameOrder ==
    ValuesOf(tree) = ValuesOf(other) =>
        /\ InOrder(tree) = InOrder(other)
        /\ Balanced(tree)
        /\ Balanced(other)
        /\ count_nodes(tree) \in {0, 1, 3} => eq(tree, other)

\* two trees of 3 values hold the same set, the first after an insert that
\* rotated
C8_Witness ==
    /\ ValuesOf(tree) = ValuesOf(other)
    /\ count_nodes(tree) = 3
    /\ count_nodes(other) = 3
    /\ op = "insert"
    /\ rot >= 1

\* C10 as stated: on every tree, rotate_left then rotate_right gives back
\* the tree, and so does rotate_right then rotate_left.
C10_RotateBack ==
    /\ hist = <<"rotate_left", "rotate_right">> => eq(tree, prev)
    /\ hist = <<"rotate_right", "rotate_left">> => eq(tree, prev)

\* the first rotation of a tree t has a pivot to promote, or the second has
\* none either
Pivoted(t, first) ==
    \/ is_empty(t)
    \/ first = "rotate_left" /\ (~is_empty(t.right) \/ is_empty(t.left))
    \/ first = "rotate_right" /\ (~is_empty(t.left) \/ is_empty(t.right))

\* C10 as amended: rotate_left then rotate_right gives back the tree when
\* its right subtree is a Node or its left subtree is Empty (or the tree is
\* Empty); rotate_right then rotate_left gives back the tree when its left
\* subtree is a Node or its right subtree is Empty (or the tree is Empty).
C10_RotateBackPivoted ==
    /\ (hist = <<"rotate_left", "rotate_right">> /\ Pivoted(prev, "rotate_left"))
           => eq(tree, prev)
    /\ (hist = <<"rotate_right", "rotate_left">> /\ Pivoted(prev, "rotate_right"))
           => eq(tree, prev)

\* rotate_left then rotate_right has run on a tree whose right subtree has
\* a left subtree to hand over
C10_Witness ==
    /\ hist = <<"rotate_left", "rotate_right">>
    /\ ~is_empty(prev)
    /\ ~is_empty(prev.left)
    /\ ~is_empty(prev.right)
    /\ ~is_empty(prev.right.left)

\* ------------------------------------------------ passes of one rebalance
\* the trees that insert and remove calls that return reach from those of S
RECURSIVE Reachable(_)
Reachable(S) ==
    LET step == {insert(t, v).tree : t \in S, v \in Values}
                \cup {remove(t, v).tree : t \in S, v \in Values}
        ok == \A t \in S : \A v \in Values : insert(t, v).ok /\ remove(t, v).ok
    IN  IF ~ok \/ step \subseteq S THEN S ELSE Reachable(S \cup step)

\* C11 as stated: some remove call on some tree that insert and remove
\* calls reach makes a rebalance loop rotate twice or more at one node.
C11_SecondPassNeeded ==
    \E t \in Reachable({tree}) : \E v \in Values : remove(t, v).rot >= 2

\* C11 as amended: no insert or remove call on a tree reached from the
\* empty tree makes a rebalance loop rotate more than once at one node: one
\* application of the case analysis always brings the balance factor of the
\* node back into [-1, 1], and the second entry of the loop only breaks.
C11_OnePassSuffices == rot <= 1

\* a remove on a tree of depth 4 has promoted a predecessor and has rotated
\* once at a node
C11_Witness ==
    /\ op = "remove"
    /\ returned
    /\ TwoChildren(prev, arg)
    /\ depth(prev) >= 4
    /\ rot = 1

\* C12: each of the four rotations, applied to an ordered tree of any
\* shape, leaves an ordered tree with the same in-order sequence of values,
\* also when it has no pivot and leaves the tree as it is.
C12_RotationsKeepOrder ==
    /\ Ordered(tree)
    /\ InOrder(tree) = InOrder(prev)

\* a rotation without a pivot (rotate_left, Empty right subtree) has left
\* the tree as it was, and a double rotation has then moved subtrees that
\* hold values
C12_Witness ==
    /\ hist = <<"rotate_left", "rotate_left_right">>
    /\ ~is_empty(prev)
    /\ is_empty(prev.right)
    /\ ~is_empty(prev.left)
    /\ ~is_empty(prev.left.left)
    /\ ~is_empty(prev.left.right)
    /\ ~eq(tree, prev)

\* ------------------------------------------------------------ scenario C
\* the tree after insert 2, insert 5 on the empty tree
Tree25 == insert(insert(Empty, 2).tree, 5).tree

\* the root as the rebalance of insert(3) on Tree25 finds it: 3 has been
\* inserted below its right child
Root253 == Node(Tree25.left, Tree25.value, insert(Tree25.right, 3).tree)

AfterInsert253 == op = "insert" /\ arg = 3 /\ prev = Tree25

Is235 ==
    /\ returned
    /\ ~is_empty(tree)
    /\ tree.value = 3
    /\ ~is_empty(tree.left)
    /\ tree.left.value = 2
    /\ ~is_empty(tree.right)
    /\ tree.right.value = 5

\* C13 as stated: insert 2, 5, 3 gives root 3 with left child 2 and right
\* child 5, and rebalance gets there by rotate_left_right at the root.
C13_ScenarioLeftRight ==
    AfterInsert253 =>
        /\ Is235
        /\ eq(rebalance_pass(Root253), rotate_left_right(Root253))
        /\ eq(tree, rotate_left_right(Root253))

\* C13 as amended: insert 2, 5, 3 gives root 3 with left child 2 and right
\* child 5, and rebalance gets there by rotate_right_left at the root (the
\* right subtree rotated right, then the node rotated left): the root is
\* right-heavy and its right child left-heavy.
C13_ScenarioRightLeft ==
    AfterInsert253 =>
        /\ Is235
        /\ balance_factor(Root253) < -1
        /\ balance_factor(Root253.right) > 0
        /\ eq(rebalance_pass(Root253), rotate_right_left(Root253))
        /\ eq(tree, rotate_right_left(Root253))

\* 3 has been inserted after 2 and 5, and the insert has rotated
C13_Witness ==
    /\ AfterInsert253
    /\ returned
    /\ rot = 1
    /\ model = {2, 3, 5}

====
